---- MODULE Spec2Model ----
(***************************************************************************)
(* The SX127x physical-layer state machine (SX127xSpiAhsm) together with   *)
(* the register driver (SX127xSpi) it calls.                               *)
(*                                                                         *)
(* Times are in milliseconds.  A byte is an integer in 0..255.             *)
(*                                                                         *)
(* A driver call that raises a Python exception is modelled by a result    *)
(* with raised = TRUE: the statements of the handler after the call do not *)
(* run and the run-to-completion step ends there.  When the exception      *)
(* escapes an ENTRY action the transition is left unfinished and the       *)
(* dispatcher's current-state pointer no longer names a state of the       *)
(* machine: `lost' is set and events are consumed without reaching a       *)
(* handler.  me.state keeps the name of the state whose entry was begun.   *)
(***************************************************************************)
EXTENDS Integers, Sequences, FiniteSets, TLC

(* ---- bounds of the model ---- *)
MaxQueue == 3
MaxCmds == 2
MaxTime == 2
MaxIrqs == 1

(* ---- program constants ---- *)
CHIP_VERSION == 18
IRQFLAGS_RXTIMEOUT_MASK == 128
IRQFLAGS_RXDONE_MASK == 64
IRQFLAGS_PAYLOADCRCERROR_MASK == 32
IRQFLAGS_VALIDHEADER_MASK == 16
IRQFLAGS_TXDONE_MASK == 8
MAX_BLOCKING_TIME == 50
TX_MARGIN == 5
TMOUT_RETRY == 1000
TMOUT_TX == 1000
rx_base_ptr == 0
_tx_base_ptr == 0

(* ---- bytes ---- *)
Bit(x, k) == (x \div (2 ^ k)) % 2

RECURSIVE AndFrom(_, _, _)
AndFrom(a, b, k) ==
    IF k = 8 THEN 0
    ELSE (2 ^ k) * Bit(a, k) * Bit(b, k) + AndFrom(a, b, k + 1)

BitAnd(a, b) == AndFrom(a, b, 0)
BitOr(a, b) == a + b - BitAnd(a, b)
BitNot(a) == 255 - a

(* ---- events ---- *)
Evt(sig, t, f, d) == [sig |-> sig, t |-> t, f |-> f, d |-> d]
AlwaysEvt == Evt("_ALWAYS", 0, 0, <<>>)
TmoutEvt == Evt("_PHY_SPI_TMOUT", 0, 0, <<>>)

RxSamples == {<<-1, 1>>, <<0, 2>>, <<2, 1>>}
TxSamples == {<<-1, 1, <<7>>>>, <<0, 2, <<1, 2, 3>>>>, <<2, 1, <<1, 2, 3>>>>}
BwSamples == {9}
VersionSamples == {0, CHIP_VERSION}

int(b) == IF b THEN 1 ELSE 0

(* Radio configurations: the fields of SX127xSettings that the driver      *)
(* reads.                                                                  *)
CfgSamples ==
    {[bandwidth_idx |-> 7, code_rate_idx |-> 1, implct_hdr_mode |-> FALSE,
      spread_factor_idx |-> 7, tx_cont |-> FALSE, en_crc |-> TRUE,
      symbol_count |-> 255, preamble_len |-> 8, en_ldr |-> FALSE,
      agc_auto |-> TRUE, sync_word |-> 18],
     [bandwidth_idx |-> 9, code_rate_idx |-> 4, implct_hdr_mode |-> TRUE,
      spread_factor_idx |-> 12, tx_cont |-> FALSE, en_crc |-> FALSE,
      symbol_count |-> 1023, preamble_len |-> 300, en_ldr |-> TRUE,
      agc_auto |-> FALSE, sync_word |-> 52]}

(* An event's value is a sequence of integers: a configuration travels as  *)
(* the sequence of its fields.                                             *)
CfgSeq(cfg) ==
    <<cfg.bandwidth_idx, cfg.code_rate_idx, int(cfg.implct_hdr_mode),
      cfg.spread_factor_idx, int(cfg.tx_cont), int(cfg.en_crc), cfg.symbol_count,
      cfg.preamble_len, int(cfg.en_ldr), int(cfg.agc_auto), cfg.sync_word>>

CfgOf(d) ==
    [bandwidth_idx |-> d[1], code_rate_idx |-> d[2], implct_hdr_mode |-> d[3] = 1,
     spread_factor_idx |-> d[4], tx_cont |-> d[5] = 1, en_crc |-> d[6] = 1,
     symbol_count |-> d[7], preamble_len |-> d[8], en_ldr |-> d[9] = 1,
     agc_auto |-> d[10] = 1, sync_word |-> d[11]]

CmdEvents ==
    {Evt("PHY_RECEIVE", x[1], x[2], <<>>) : x \in RxSamples}
    \cup {Evt("PHY_TRANSMIT", x[1], x[2], x[3]) : x \in TxSamples}
    \cup {Evt("PHY_SET_LORA", 0, 0, CfgSeq(cfg)) : cfg \in CfgSamples}
    \cup {Evt(s, 0, 0, <<>>) : s \in {"PHY_STDBY", "PHY_SLEEP", "PHY_CAD"}}

(***************************************************************************)
(* Register driver.  sx = [regs, dio_mapping, bandwidth_idx, calls].        *)
(* calls lists the driver methods called since the current step began, in  *)
(* the order of the calls.                                                 *)
(***************************************************************************)
LogCall(sx, op, arg) == [sx EXCEPT !.calls = Append(@, [op |-> op, arg |-> arg])]

(* The driver as a step finds it: no call made yet.                        *)
NoCalls(sx) == [sx EXCEPT !.calls = <<>>]

mode_lut(mode) ==
    CASE mode = "sleep" -> 0
      [] mode = "stdby" -> 1
      [] mode = "standby" -> 1
      [] mode = "fstx" -> 2
      [] mode = "tx" -> 3
      [] mode = "fsrx" -> 4
      [] mode = "rxcont" -> 5
      [] mode = "rx" -> 6
      [] mode = "rxonce" -> 6
      [] mode = "cad" -> 7

OpModeOf(sx) == sx.regs.op_mode % 8

(* A check that passes whatever the version register holds.               *)
check_chip_ver_always(sx) == TRUE

check_chip_ver(sx) == sx.regs.version = CHIP_VERSION

(* The read-modify-write the docstring describes; the body of the method   *)
(* does not get that far (see set_op_mode).                                *)
set_op_mode_rmw(sx, mode) ==
    [raised |-> FALSE,
     sx |-> [LogCall(sx, "set_op_mode", mode)
                EXCEPT !.regs.op_mode = (sx.regs.op_mode \div 8) * 8 + mode_lut(mode)]]

(* d = self._read(REG_OP_MODE) is a list; `d &= 0b11111000' raises         *)
(* TypeError (and self._write(REG_OP_MODE) lacks its data argument): for   *)
(* every mode name the call raises and the register is not written.        *)
set_op_mode(sx, mode) == [raised |-> TRUE, sx |-> LogCall(sx, "set_op_mode", mode)]

set_pwr_cfg(sx) == [LogCall(sx, "set_pwr_cfg", "") EXCEPT !.regs.pa_cfg = 207]

(* _initializing calls SX127xSpi.init, which the driver's source does not   *)
(* define: it applies the default modem configuration.                     *)
init(sx, bw) == [LogCall(sx, "init", "") EXCEPT !.bandwidth_idx = bw]

clear_lora_irqs(sx, irq_bits) ==
    LET d == IF irq_bits # 0 THEN irq_bits ELSE 255
    IN  [LogCall(sx, "clear_lora_irqs", "")
            EXCEPT !.regs.irq_flags = BitAnd(sx.regs.irq_flags, BitNot(d))]

enable_lora_irqs(sx, irq_bits) ==
    LET d == IF irq_bits # 0 THEN BitNot(irq_bits) ELSE 0
    IN  [LogCall(sx, "enable_lora_irqs", "") EXCEPT !.regs.irq_mask = d]

disable_lora_irqs(sx) == [LogCall(sx, "disable_lora_irqs", "") EXCEPT !.regs.irq_mask = 255]

(* A mapping update that starts from all zeros instead of the cached       *)
(* mapping.                                                                *)
set_dio_mapping_fresh(sx, dio_args) ==
    LET dio_seq == [i \in 0..5 |-> IF i \in DOMAIN dio_args THEN dio_args[i] ELSE 0]
    IN  [LogCall(sx, "set_dio_mapping", "") EXCEPT
                   !.dio_mapping = dio_seq,
                   !.regs.dio_map1 = (dio_seq[0] % 4) * 64 + (dio_seq[1] % 4) * 16
                                     + (dio_seq[2] % 4) * 4 + (dio_seq[3] % 4),
                   !.regs.dio_map2 = (dio_seq[4] % 4) * 64 + (dio_seq[5] % 4) * 16]

(* dio_args: a function from the pins named in the call to their values.   *)
set_dio_mapping(sx, dio_args) ==
    LET dio_seq == [i \in 0..5 |->
                       IF i \in DOMAIN dio_args THEN dio_args[i] ELSE sx.dio_mapping[i]]
        map_reg1 == (dio_seq[0] % 4) * 64 + (dio_seq[1] % 4) * 16
                    + (dio_seq[2] % 4) * 4 + (dio_seq[3] % 4)
        map_reg2 == (dio_seq[4] % 4) * 64 + (dio_seq[5] % 4) * 16
    IN  [LogCall(sx, "set_dio_mapping", "") EXCEPT
                   !.dio_mapping = dio_seq,
                   !.regs.dio_map1 = map_reg1,
                   !.regs.dio_map2 = map_reg2]

set_lora_rx_fifo(sx, offset) ==
    [LogCall(sx, "set_lora_rx_fifo", "") EXCEPT !.regs.fifo_rx_base = offset, !.regs.fifo_ptr = offset]

rx_rejection_offset_lut ==
    <<7810, 10420, 15620, 20830, 31250, 41670, 0, 0, 0, 0>>

set_lora_rx_freq(sx, freq) ==
    [LogCall(sx, "set_lora_rx_freq", "") EXCEPT
               !.regs.freq = freq,
               !.regs.freq_offset = rx_rejection_offset_lut[sx.bandwidth_idx + 1]]

set_lora_fifo_ptr(sx, offset) ==
    [LogCall(sx, "set_lora_fifo_ptr", "") EXCEPT !.regs.fifo_ptr = offset]

set_tx_data(sx, data) ==
    [LogCall(sx, "set_tx_data", "") EXCEPT
               !.regs.payld_len = Len(data),
               !.regs.fifo_ptr = _tx_base_ptr,
               !.regs.fifo_tx_base = _tx_base_ptr,
               !.regs.fifo = data]

set_tx_freq(sx, freq) ==
    [LogCall(sx, "set_tx_freq", "") EXCEPT !.regs.freq = freq, !.regs.freq_offset = 0]

RxFlagsMask ==
    IRQFLAGS_RXTIMEOUT_MASK + IRQFLAGS_RXDONE_MASK
    + IRQFLAGS_PAYLOADCRCERROR_MASK + IRQFLAGS_VALIDHEADER_MASK

(* A flag check that looks at RxDone only.                                 *)
check_lora_rx_flags_rxdone_only(sx) ==
    LET flags == BitAnd(sx.regs.irq_flags, RxFlagsMask)
    IN  [result |-> BitAnd(flags, IRQFLAGS_RXDONE_MASK) # 0,
         written |-> flags,
         sx |-> [LogCall(sx, "check_lora_rx_flags", "")
                    EXCEPT !.regs.irq_flags = BitAnd(sx.regs.irq_flags, BitNot(flags))]]

check_lora_rx_flags(sx) ==
    LET flags == BitAnd(sx.regs.irq_flags, RxFlagsMask)
        result == IF BitAnd(flags, IRQFLAGS_RXTIMEOUT_MASK
                                   + IRQFLAGS_PAYLOADCRCERROR_MASK) # 0
                  THEN FALSE
                  ELSE BitAnd(flags, IRQFLAGS_RXDONE_MASK) # 0
    IN  [result |-> result,
         written |-> flags,
         sx |-> [LogCall(sx, "check_lora_rx_flags", "")
                    EXCEPT !.regs.irq_flags = BitAnd(sx.regs.irq_flags, BitNot(flags))]]

(* Repositions the FIFO pointer to the start of the last packet.           *)
get_lora_rxd(sx) ==
    [LogCall(sx, "get_lora_rxd", "") EXCEPT !.regs.fifo_ptr = sx.regs.rx_current_addr]

(* What get_lora_rxd returns besides the payload: rssi in dBm and snr in   *)
(* dB, the latter a float kept here as the fraction num/den.               *)
get_lora_rxd_ret(sx) ==
    LET snr == sx.regs.pkt_snr
        rssi == sx.regs.pkt_rssi
    IN  [rssi |-> -157 + rssi, snr |-> [num |-> snr, den |-> 4]]

op_mode_names == <<"sleep", "stdby", "fstx", "tx", "fsrx", "rxcont", "rx", "cad">>

(* The attribute self.mode it also sets is never read.                     *)
get_op_mode(sx) == op_mode_names[BitAnd(sx.regs.op_mode, 7) + 1]

(* set_modem: the first statement, set_op_mode("sleep"), raises; were it   *)
(* to return, `d &= 0b00011111' on the list d would raise the same way.    *)
set_modem(sx, modem) ==
    LET r == set_op_mode(sx, "sleep")
    IN  [raised |-> TRUE, sx |-> r.sx]

(* cfg: the fields of SX127xSettings that set_config reads.  The attribute *)
(* self.cfg it also sets is never read.                                    *)
set_config(sx, cfg) ==
    LET s0 == [sx EXCEPT !.bandwidth_idx = cfg.bandwidth_idx]
        mode_bkup == get_op_mode(s0)
        r1 == IF mode_bkup # "sleep"
              THEN set_op_mode(s0, "sleep")
              ELSE [raised |-> FALSE, sx |-> s0]
        reg_cfg1 == BitOr(BitOr(cfg.bandwidth_idx * 16, cfg.code_rate_idx * 2),
                          int(cfg.implct_hdr_mode))
        reg_cfg2 == BitOr(BitOr(BitOr(cfg.spread_factor_idx * 16, int(cfg.tx_cont) * 8),
                                int(cfg.en_crc) * 4),
                          cfg.symbol_count \div 256)
        reg_sym_to == cfg.symbol_count % 256
        reg_cfg3 == BitOr(int(cfg.en_ldr) * 8, int(cfg.agc_auto) * 4)
        s2 == [r1.sx EXCEPT !.regs.modem_cfg1 = reg_cfg1,
                            !.regs.modem_cfg2 = reg_cfg2,
                            !.regs.sym_to = reg_sym_to,
                            !.regs.preamble_msb = cfg.preamble_len \div 256,
                            !.regs.preamble_lsb = cfg.preamble_len % 256,
                            !.regs.modem_cfg3 = reg_cfg3,
                            !.regs.sync_word = cfg.sync_word % 256]
        r3 == IF mode_bkup # "sleep"
              THEN set_op_mode(s2, mode_bkup)
              ELSE [raised |-> FALSE, sx |-> s2]
    IN  IF r1.raised THEN r1 ELSE r3

(***************************************************************************)
(* State machine.  A context c gathers what one run-to-completion step     *)
(* reads and writes: c = [me, sx, tm, mq, pub, now, lost, raised].         *)
(***************************************************************************)
VARIABLES me, sx127x, tm_evt, mq, pub, now, lost, exc, ncmd, nirq, drv

vars == <<me, sx127x, tm_evt, mq, pub, now, lost, exc, ncmd, nirq, drv>>

Ctx ==
    [me |-> me, sx |-> sx127x, tm |-> tm_evt, mq |-> mq, pub |-> pub,
     now |-> now, lost |-> lost, raised |-> FALSE]

(* farc.TimeEvent: n pending expirations, the last armed with `delay'.     *)
postIn(tm, delay) == [n |-> tm.n + 1, delay |-> delay]
disarm(tm) == [n |-> 0, delay |-> tm.delay]

postFIFO(c, e) == [c EXCEPT !.mq = Append(c.mq, e)]
publish(c, p) == [c EXCEPT !.pub = Append(c.pub, p)]

(* The exception leaves handler s: the rest of the step does not run.      *)
RaiseIn(c, s) == [c EXCEPT !.raised = TRUE, !.me.state = s]

parent(s) ==
    CASE s = "initializing" -> "top"
      [] s = "idling" -> "top"
      [] s = "working" -> "top"
      [] s = "sleeping" -> "top"
      [] s = "cad_ing" -> "top"
      [] s = "rx_prepping" -> "idling"
      [] s = "tx_prepping" -> "idling"
      [] s = "listening" -> "working"
      [] s = "transmitting" -> "working"
      [] s = "receiving" -> "listening"

(* ---- ENTRY and EXIT actions ---- *)
(* An entry of RxPrepping that leaves the DIO mapping alone.               *)
_rx_prepping_ENTRY_unmapped(c) ==
    LET s1 == disable_lora_irqs(c.sx)
        s2 == enable_lora_irqs(s1, RxFlagsMask)
        s4 == set_lora_rx_fifo(s2, rx_base_ptr)
        s5 == set_lora_rx_freq(s4, c.me.rx_freq)
    IN  postFIFO([c EXCEPT !.sx = s5], AlwaysEvt)

_rx_prepping_ENTRY(c) ==
    LET s1 == disable_lora_irqs(c.sx)
        s2 == enable_lora_irqs(s1, RxFlagsMask)
        s3 == set_dio_mapping(s2, (0 :> 0) @@ (1 :> 0) @@ (3 :> 1))
        s4 == set_lora_rx_fifo(s3, rx_base_ptr)
        s5 == set_lora_rx_freq(s4, c.me.rx_freq)
    IN  postFIFO([c EXCEPT !.sx = s5], AlwaysEvt)

(* An entry of TxPrepping that programs the frequency and the FIFO first.  *)
_tx_prepping_ENTRY_freq_first(c) ==
    LET s1 == set_tx_freq(c.sx, c.me.tx_freq)
        s2 == set_tx_data(set_lora_fifo_ptr(s1, 0), c.me.tx_data)
        s3 == enable_lora_irqs(disable_lora_irqs(s2), IRQFLAGS_TXDONE_MASK)
        s4 == set_dio_mapping(clear_lora_irqs(s3, IRQFLAGS_TXDONE_MASK), (0 :> 1))
    IN  postFIFO([c EXCEPT !.sx = s4], AlwaysEvt)

_tx_prepping_ENTRY(c) ==
    LET s1 == disable_lora_irqs(c.sx)
        s2 == enable_lora_irqs(s1, IRQFLAGS_TXDONE_MASK)
        s3 == clear_lora_irqs(s2, IRQFLAGS_TXDONE_MASK)
        s4 == set_dio_mapping(s3, (0 :> 1))
        s5 == set_lora_fifo_ptr(s4, 0)
        s6 == set_tx_data(s5, c.me.tx_data)
        s7 == set_tx_freq(s6, c.me.tx_freq)
    IN  postFIFO([c EXCEPT !.sx = s7], AlwaysEvt)

_listening_ENTRY(c) ==
    LET c1 == [c EXCEPT !.me.hdr_time = 0]
        r == set_op_mode(c1.sx, IF c1.me.rx_time < 0 THEN "rxcont" ELSE "rxonce")
    IN  IF r.raised THEN [c1 EXCEPT !.raised = TRUE, !.sx = r.sx]
        ELSE [c1 EXCEPT !.sx = r.sx]

_transmitting_ENTRY(c) ==
    LET r == set_op_mode(c.sx, "tx")
    IN  IF r.raised THEN [c EXCEPT !.raised = TRUE, !.sx = r.sx]
        ELSE [c EXCEPT !.sx = r.sx, !.tm = postIn(c.tm, TMOUT_TX)]

_transmitting_EXIT(c) ==
    publish([c EXCEPT !.tm = disarm(c.tm)], [sig |-> "PHY_TX_DONE", t |-> 0])

_initializing_EXIT(c) == [c EXCEPT !.tm = disarm(c.tm)]

enter(c, s) ==
    CASE s = "rx_prepping" -> _rx_prepping_ENTRY(c)
      [] s = "tx_prepping" -> _tx_prepping_ENTRY(c)
      [] s = "listening" -> _listening_ENTRY(c)
      [] s = "transmitting" -> _transmitting_ENTRY(c)
      [] OTHER -> c

exit(c, s) ==
    CASE s = "transmitting" -> _transmitting_EXIT(c)
      [] s = "initializing" -> _initializing_EXIT(c)
      [] OTHER -> c

(* ---- transitions: exit up to the least common ancestor, then enter ---- *)
(* Bind(x, F) is F(x) with x evaluated once.                               *)
Bind(x, F(_)) == CHOOSE r \in {F(v) : v \in {x}} : TRUE

RECURSIVE PathToTop(_)
PathToTop(s) == IF s = "top" THEN <<"top">> ELSE <<s>> \o PathToTop(parent(s))

InSeq(x, q) == \E i \in 1..Len(q) : q[i] = x

RECURSIVE UpTo(_, _)
UpTo(s, a) == IF s = a THEN <<>> ELSE <<s>> \o UpTo(parent(s), a)

RECURSIVE Lca(_, _)
Lca(s, t) == IF InSeq(s, PathToTop(t)) THEN s ELSE Lca(parent(s), t)

Reverse(q) == [i \in 1..Len(q) |-> q[Len(q) + 1 - i]]

RECURSIVE RunExits(_, _)
RunExits(c, ss) ==
    Bind(<<c, ss>>, LAMBDA a :
        IF a[2] = <<>> THEN a[1] ELSE RunExits(exit(a[1], Head(a[2])), Tail(a[2])))

RECURSIVE RunEntries(_, _)
RunEntries(c, ss) ==
    Bind(ss, LAMBDA q :
        IF q = <<>> THEN c
        ELSE Bind(enter([c EXCEPT !.me.state = Head(q)], Head(q)), LAMBDA c1 :
                 IF c1.raised THEN [c1 EXCEPT !.lost = TRUE]
                 ELSE RunEntries(c1, Tail(q))))

(* me.tran(me, t) returned by the handler of state s (the current state or *)
(* one of its ancestors).                                                  *)
Tran(c, s, t) ==
    Bind(<<c, IF s = t THEN parent(s) ELSE Lca(s, t)>>, LAMBDA a :
        Bind(RunExits(a[1], UpTo(a[1].me.state, s) \o UpTo(s, a[2])), LAMBDA c1 :
            RunEntries([c1 EXCEPT !.me.state = t], Reverse(UpTo(t, a[2])))))

(* ---- state handlers: c is the context, e the event dispatched ---- *)
top(c, e) == c

sleep(c, secs) == [c EXCEPT !.now = c.now + secs]

(* A handler that keeps the start time of whatever event it is given.      *)
_initializing_accepting(c, e) == [c EXCEPT !.me.rx_time = e.t + 1]

(* A handler that arms the time event whatever event it is given.         *)
_initializing_rearming(c, e) == [c EXCEPT !.tm = postIn(c.tm, TMOUT_RETRY)]

_initializing(c, e) ==
    IF e.sig = "_PHY_SPI_TMOUT"
    THEN IF check_chip_ver(c.sx)
         THEN Tran([c EXCEPT !.sx = set_pwr_cfg(init(c.sx, c.me.dflt_bw))],
                   "initializing", "idling")
         ELSE [c EXCEPT !.tm = postIn(c.tm, TMOUT_RETRY)]
    ELSE top(c, e)

(* An Idling that starts the preparation of a receive or transmit request  *)
(* without capturing the request's parameters.                             *)
_idling_forgetful(c, e) ==
    CASE e.sig = "PHY_SLEEP" -> Tran(c, "idling", "sleeping")
      [] e.sig = "PHY_SET_LORA" -> c
      [] e.sig = "PHY_RECEIVE" -> Tran(c, "idling", "rx_prepping")
      [] e.sig = "PHY_TRANSMIT" -> Tran(c, "idling", "tx_prepping")
      [] e.sig = "PHY_CAD" -> Tran(c, "idling", "cad_ing")
      [] OTHER -> top(c, e)

_idling(c, e) ==
    CASE e.sig = "PHY_SLEEP" -> Tran(c, "idling", "sleeping")
      [] e.sig = "PHY_SET_LORA" -> c
      [] e.sig = "PHY_RECEIVE" ->
            Tran([c EXCEPT !.me.rx_time = e.t, !.me.rx_freq = e.f],
                 "idling", "rx_prepping")
      [] e.sig = "PHY_TRANSMIT" ->
            Tran([c EXCEPT !.me.tx_time = e.t, !.me.tx_freq = e.f, !.me.tx_data = e.d],
                 "idling", "tx_prepping")
      [] e.sig = "PHY_CAD" -> Tran(c, "idling", "cad_ing")
      [] OTHER -> top(c, e)

_working(c, e) ==
    IF e.sig = "PHY_STDBY"
    THEN LET r == set_op_mode(c.sx, "stdby")
         IN  IF r.raised THEN RaiseIn([c EXCEPT !.sx = r.sx], "working")
             ELSE Tran([c EXCEPT !.sx = r.sx], "working", "idling")
    ELSE top(c, e)

_rx_prepping(c, e) ==
    IF e.sig = "_ALWAYS"
    THEN LET tiny_sleep == c.me.rx_time - c.now
             c1 == IF c.me.rx_time > 0 /\ 0 < tiny_sleep /\ tiny_sleep < MAX_BLOCKING_TIME
                   THEN sleep(c, tiny_sleep)
                   ELSE c
         IN  Tran(c1, "rx_prepping", "listening")
    ELSE _idling(c, e)

_listening(c, e) ==
    CASE e.sig = "PHY_DIO0" ->
            LET r == check_lora_rx_flags(c.sx)
                c1 == IF r.result
                      THEN publish([c EXCEPT !.sx = get_lora_rxd(r.sx)],
                                   [sig |-> "PHY_RXD_DATA", t |-> c.me.hdr_time])
                      ELSE [c EXCEPT !.sx = r.sx]
            IN  Tran(c1, "listening", "idling")
      [] e.sig = "PHY_DIO1" ->
            Tran([c EXCEPT !.sx = clear_lora_irqs(c.sx, IRQFLAGS_RXTIMEOUT_MASK)],
                 "listening", "idling")
      [] e.sig = "PHY_DIO3" ->
            Tran([c EXCEPT !.me.hdr_time = e.t,
                           !.sx = clear_lora_irqs(c.sx, IRQFLAGS_VALIDHEADER_MASK)],
                 "listening", "receiving")
      [] e.sig = "PHY_TRANSMIT" ->
            LET r == set_op_mode(c.sx, "stdby")
            IN  IF r.raised THEN RaiseIn([c EXCEPT !.sx = r.sx], "listening")
                ELSE Tran([c EXCEPT !.sx = r.sx, !.me.tx_time = e.t,
                                    !.me.tx_freq = e.f, !.me.tx_data = e.d],
                          "listening", "tx_prepping")
      [] OTHER -> _working(c, e)

(* ENTRY and PHY_TRANSMIT only `pass': every event goes to the superstate. *)
_receiving(c, e) == _listening(c, e)

(* A continuation of TxPrepping that waits for the whole remainder.        *)
_tx_prepping_unclamped(c, e) ==
    IF e.sig = "_ALWAYS"
    THEN LET tiny_sleep == c.me.tx_time - c.now + TX_MARGIN
         IN  Tran(IF c.me.tx_time > 0 /\ 0 < tiny_sleep THEN sleep(c, tiny_sleep) ELSE c,
                  "tx_prepping", "transmitting")
    ELSE _idling(c, e)

_tx_prepping(c, e) ==
    IF e.sig = "_ALWAYS"
    THEN LET tiny_sleep == c.me.tx_time - c.now + TX_MARGIN
             c1 == IF c.me.tx_time > 0 /\ 0 < tiny_sleep
                   THEN sleep(c, IF tiny_sleep > MAX_BLOCKING_TIME
                                 THEN MAX_BLOCKING_TIME ELSE tiny_sleep)
                   ELSE c
         IN  Tran(c1, "tx_prepping", "transmitting")
    ELSE _idling(c, e)

_transmitting(c, e) ==
    CASE e.sig = "PHY_DIO0" -> Tran(c, "transmitting", "idling")
      [] e.sig = "_PHY_SPI_TMOUT" ->
            LET r == set_op_mode(c.sx, "stdby")
            IN  IF r.raised THEN RaiseIn([c EXCEPT !.sx = r.sx], "transmitting")
                ELSE Tran([c EXCEPT !.sx = r.sx], "transmitting", "idling")
      [] OTHER -> _working(c, e)

(* Sleeping and CadIng are targets of me.tran in _idling that the source   *)
(* does not define: stubs, no event is handled there.                      *)
sleeping(c, e) == top(c, e)
cad_ing(c, e) == top(c, e)

dispatch(c, e) ==
    CASE c.lost -> top(c, e)
      [] ~c.lost /\ c.me.state = "initializing" -> _initializing(c, e)
      [] ~c.lost /\ c.me.state = "idling" -> _idling(c, e)
      [] ~c.lost /\ c.me.state = "working" -> _working(c, e)
      [] ~c.lost /\ c.me.state = "rx_prepping" -> _rx_prepping(c, e)
      [] ~c.lost /\ c.me.state = "listening" -> _listening(c, e)
      [] ~c.lost /\ c.me.state = "receiving" -> _receiving(c, e)
      [] ~c.lost /\ c.me.state = "tx_prepping" -> _tx_prepping(c, e)
      [] ~c.lost /\ c.me.state = "transmitting" -> _transmitting(c, e)
      [] ~c.lost /\ c.me.state = "sleeping" -> sleeping(c, e)
      [] ~c.lost /\ c.me.state = "cad_ing" -> cad_ing(c, e)

(***************************************************************************)
(* Initial state: after SX127xSpiAhsm._initial and the entry of            *)
(* _initializing (driver constructed, tm_evt.postIn(me, 0.0)).             *)
(***************************************************************************)
(* drv: the last direct call of a driver method (see DriverSpec): its name  *)
(* and argument, the driver before the call, whether it raised, what it    *)
(* returned, the number of calls made so far, and the name, argument and   *)
(* driver-before of the call before it.                                    *)
NoCall ==
    [op |-> "none", arg |-> <<>>, pre |-> <<>>, raised |-> FALSE, ret |-> <<>>, n |-> 0,
     prev |-> [op |-> "none", arg |-> <<>>, pre |-> <<>>]]

InitRegs(v, hi) ==
    [version |-> v, op_mode |-> hi + 1, pa_cfg |-> 0, irq_mask |-> 0, irq_flags |-> 0,
     dio_map1 |-> 0, dio_map2 |-> 0, fifo_ptr |-> 0, fifo_rx_base |-> 0,
     fifo_tx_base |-> 0, rx_current_addr |-> 0, payld_len |-> 0, fifo |-> <<>>,
     freq |-> 0, freq_offset |-> 0, pkt_snr |-> 0, pkt_rssi |-> 0,
     modem_cfg1 |-> 0, modem_cfg2 |-> 0, sym_to |-> 0, preamble_msb |-> 0,
     preamble_lsb |-> 0, modem_cfg3 |-> 0, sync_word |-> 0]

Init ==
    /\ \E bw \in BwSamples :
          me = [state |-> "initializing", rx_time |-> 0, rx_freq |-> 0, tx_time |-> 0,
                tx_freq |-> 0, tx_data |-> <<>>, hdr_time |-> 0, dflt_bw |-> bw]
    /\ \E v \in VersionSamples :
          sx127x = [regs |-> InitRegs(v, 136), dio_mapping |-> [i \in 0..5 |-> 0], calls |-> <<>>,
                    bandwidth_idx |-> 0]
    /\ tm_evt = [n |-> 1, delay |-> 0]
    /\ mq = <<>>
    /\ pub = <<>>
    /\ now = 1
    /\ lost = FALSE
    /\ exc = FALSE
    /\ ncmd = 0
    /\ nirq = 0
    /\ drv = NoCall

(* ---- the machine's step: farc dispatches the next queued event ---- *)
Dispatch ==
    /\ mq # <<>>
    /\ \E c \in {dispatch([Ctx EXCEPT !.mq = Tail(mq), !.sx = NoCalls(sx127x)], Head(mq))} :
           /\ me' = c.me
           /\ sx127x' = c.sx
           /\ tm_evt' = c.tm
           /\ mq' = c.mq
           /\ pub' = c.pub
           /\ now' = c.now
           /\ lost' = c.lost
           /\ exc' = (exc \/ c.raised)
    /\ UNCHANGED <<drv, ncmd, nirq>>

(* ---- the environment ---- *)
(* The armed time event expires: farc posts it to the machine's queue.     *)
TimerFire ==
    /\ tm_evt.n > 0
    /\ tm_evt' = [tm_evt EXCEPT !.n = tm_evt.n - 1]
    /\ mq' = Append(mq, TmoutEvt)
    /\ UNCHANGED <<drv, me, sx127x, pub, now, lost, exc, ncmd, nirq>>

(* A higher layer sends a command.                                         *)
Command ==
    /\ ncmd < MaxCmds
    /\ Len(mq) < MaxQueue
    /\ \E e \in CmdEvents : mq' = Append(mq, e)
    /\ ncmd' = ncmd + 1
    /\ UNCHANGED <<drv, me, sx127x, tm_evt, pub, now, lost, exc, nirq>>

(* A DIO pin edge, real or simulated: the interrupt flags of the pin's     *)
(* cause are raised in the chip and the GPIO bridge publishes the pin's    *)
(* event with the current time.  A chip in tx or rxonce mode returns to    *)
(* standby by itself.                                                      *)
IrqSamples(sig) ==
    CASE sig = "PHY_DIO0" -> {IRQFLAGS_RXDONE_MASK,
                              IRQFLAGS_RXDONE_MASK + IRQFLAGS_PAYLOADCRCERROR_MASK,
                              IRQFLAGS_TXDONE_MASK}
      [] sig = "PHY_DIO1" -> {IRQFLAGS_RXTIMEOUT_MASK}
      [] sig = "PHY_DIO3" -> {IRQFLAGS_VALIDHEADER_MASK}

_gpio_input_handler(sig) == Evt(sig, now, 0, <<>>)

GpioEdge ==
    /\ nirq < MaxIrqs
    /\ Len(mq) < MaxQueue
    /\ \E sig \in {"PHY_DIO0", "PHY_DIO1", "PHY_DIO3"} : \E fl \in IrqSamples(sig) :
          /\ mq' = Append(mq, _gpio_input_handler(sig))
          /\ sx127x' = [sx127x EXCEPT
                           !.regs.irq_flags = BitOr(@, fl),
                           !.regs.op_mode =
                               IF OpModeOf(sx127x) \in {mode_lut("tx"), mode_lut("rxonce")}
                               THEN (@ \div 8) * 8 + mode_lut("stdby") ELSE @]
    /\ nirq' = nirq + 1
    /\ UNCHANGED <<drv, me, tm_evt, pub, now, lost, exc, ncmd>>

(* The version register as the bus returns it changes (chip absent or      *)
(* unresponsive, chip responding); it is read only in Initializing.        *)
SpiLink ==
    /\ me.state = "initializing"
    /\ \E v \in VersionSamples \ {sx127x.regs.version} :
          sx127x' = [sx127x EXCEPT !.regs.version = v]
    /\ UNCHANGED <<drv, me, tm_evt, mq, pub, now, lost, exc, ncmd, nirq>>

Tick ==
    /\ now < MaxTime
    /\ now' = now + 1
    /\ UNCHANGED <<drv, me, sx127x, tm_evt, mq, pub, lost, exc, ncmd, nirq>>

Next == Dispatch \/ TimerFire \/ Command \/ GpioEdge \/ SpiLink \/ Tick

Spec == Init /\ [][Next]_vars

(* Queued events are dispatched and an armed time event expires.           *)
FairSpec == Spec /\ WF_vars(Dispatch) /\ WF_vars(TimerFire)

(***************************************************************************)
(* The machine with receive and transmit requests whose start times lie    *)
(* before, near and far after the current time of the event loop, which    *)
(* may be any value when the machine is constructed.                       *)
(***************************************************************************)
NowSamples == {1, 60, 100}
StartSamples == {-1, 0, 30, 57, 60, 62, 100, 105, 160, 300}

PrepInit ==
    /\ \E bw \in BwSamples :
          me = [state |-> "initializing", rx_time |-> 0, rx_freq |-> 0, tx_time |-> 0,
                tx_freq |-> 0, tx_data |-> <<>>, hdr_time |-> 0, dflt_bw |-> bw]
    /\ sx127x = [regs |-> InitRegs(CHIP_VERSION, 136), dio_mapping |-> [i \in 0..5 |-> 0], calls |-> <<>>,
                 bandwidth_idx |-> 0]
    /\ tm_evt = [n |-> 1, delay |-> 0]
    /\ mq = <<>>
    /\ pub = <<>>
    /\ now \in NowSamples
    /\ lost = FALSE
    /\ exc = FALSE
    /\ ncmd = 0
    /\ nirq = 0
    /\ drv = NoCall

PrepRequest ==
    /\ ncmd < MaxCmds
    /\ Len(mq) < MaxQueue
    /\ \E t \in StartSamples :
          \/ mq' = Append(mq, Evt("PHY_RECEIVE", t, 1, <<>>))
          \/ mq' = Append(mq, Evt("PHY_TRANSMIT", t, 1, <<7>>))
    /\ ncmd' = ncmd + 1
    /\ UNCHANGED <<drv, me, sx127x, tm_evt, pub, now, lost, exc, nirq>>

PrepNext == Dispatch \/ TimerFire \/ PrepRequest

PrepSpec == PrepInit /\ [][PrepNext]_vars

(***************************************************************************)
(* The driver on its own: a client calls the methods of SX127xSpi one      *)
(* after the other, starting from a chip whose registers and cached        *)
(* mapping are drawn from the samples below.                               *)
(***************************************************************************)
MaxCalls == 2

UpperBitsSamples == {0, 136}
SnrSamples == {0, 40, 127, 128, 216, 255}
RssiSamples == {0, 57, 255}
DioMappingSamples == [0..5 -> {0, 3}]
ModeNames == {"sleep", "stdby", "standby", "fstx", "tx", "fsrx", "rxcont", "rx",
              "rxonce", "cad"}
ModemNames == {"lora", "fsk", "ook"}
DioArgSamples ==
    {i :> v : i \in 0..5, v \in 0..3}
    \cup {(0 :> 0) @@ (1 :> 0) @@ (3 :> 1), (4 :> 2) @@ (5 :> 1)}

DrvBase ==
    [regs |-> InitRegs(CHIP_VERSION, 136), dio_mapping |-> [i \in 0..5 |-> 0], calls |-> <<>>,
     bandwidth_idx |-> 0]

DrvSamples ==
    {[DrvBase EXCEPT !.regs.op_mode = hi + m] : hi \in UpperBitsSamples, m \in 0..7}
    \cup {[DrvBase EXCEPT !.regs.irq_flags = fl] : fl \in 0..255}
    \cup {[DrvBase EXCEPT !.regs.pkt_snr = x[1], !.regs.pkt_rssi = x[2]] :
              x \in SnrSamples \X RssiSamples}

(* A driver whose cache and registers hold the mapping m, and a new driver *)
(* (cache all zeros) on a chip whose mapping registers hold something else. *)
DioSamples ==
    {NoCalls(set_dio_mapping(DrvBase, m)) : m \in DioMappingSamples}
    \cup {[DrvBase EXCEPT !.regs.dio_map1 = 228, !.regs.dio_map2 = 80]}

DrvInitWith(samples) ==
    /\ me = [state |-> "initializing", rx_time |-> 0, rx_freq |-> 0, tx_time |-> 0,
             tx_freq |-> 0, tx_data |-> <<>>, hdr_time |-> 0, dflt_bw |-> 0]
    /\ sx127x \in samples
    /\ tm_evt = [n |-> 0, delay |-> 0]
    /\ mq = <<>>
    /\ pub = <<>>
    /\ now = 1
    /\ lost = FALSE
    /\ exc = FALSE
    /\ ncmd = 0
    /\ nirq = 0
    /\ drv = NoCall

DrvInit == DrvInitWith(DrvSamples)

DioInit == DrvInitWith(DioSamples)

Called(op, arg, r, ret) ==
    /\ sx127x' = r.sx
    /\ drv' = [op |-> op, arg |-> arg, pre |-> sx127x, raised |-> r.raised,
               ret |-> ret, n |-> drv.n + 1,
               prev |-> [op |-> drv.op, arg |-> drv.arg, pre |-> drv.pre]]
    /\ UNCHANGED <<me, tm_evt, mq, pub, now, lost, exc, ncmd, nirq>>

CallSetOpMode ==
    /\ drv.n < MaxCalls
    /\ \E mode \in ModeNames :
          Called("set_op_mode", mode, set_op_mode(NoCalls(sx127x), mode), <<>>)

CallGetOpMode ==
    /\ drv.n < MaxCalls
    /\ Called("get_op_mode", <<>>, [raised |-> FALSE, sx |-> NoCalls(sx127x)],
              get_op_mode(sx127x))

CallCheckLoraRxFlags ==
    /\ drv.n < MaxCalls
    /\ \E r \in {check_lora_rx_flags(NoCalls(sx127x))} :
          Called("check_lora_rx_flags", <<>>, [raised |-> FALSE, sx |-> r.sx],
                 [result |-> r.result, written |-> r.written])

CallSetDioMapping ==
    /\ drv.n < MaxCalls
    /\ \E dio_args \in DioArgSamples :
          Called("set_dio_mapping", dio_args,
                 [raised |-> FALSE, sx |-> set_dio_mapping(NoCalls(sx127x), dio_args)], <<>>)

CallSetConfig ==
    /\ drv.n < MaxCalls
    /\ \E cfg \in CfgSamples :
          Called("set_config", cfg, set_config(NoCalls(sx127x), cfg), <<>>)

CallSetModem ==
    /\ drv.n < MaxCalls
    /\ \E modem \in ModemNames :
          Called("set_modem", modem, set_modem(NoCalls(sx127x), modem), <<>>)

CallGetLoraRxd ==
    /\ drv.n < MaxCalls
    /\ Called("get_lora_rxd", <<>>, [raised |-> FALSE, sx |-> get_lora_rxd(NoCalls(sx127x))],
              get_lora_rxd_ret(sx127x))

DrvNext ==
    \/ CallSetOpMode
    \/ CallGetOpMode
    \/ CallCheckLoraRxFlags
    \/ CallSetConfig
    \/ CallSetModem
    \/ CallGetLoraRxd

DriverSpec == DrvInit /\ [][DrvNext]_vars

(* The client only updates the DIO mapping.                                *)
DioNext == CallSetDioMapping

DioSpec == DioInit /\ [][DioNext]_vars

(***************************************************************************)
(* Properties.                                                             *)
(***************************************************************************)
(* The step dispatches an event of signal sig from the head of the queue.  *)
Handling(sig) == mq # <<>> /\ Head(mq).sig = sig /\ Dispatch

Queued(sig) == \E i \in 1..Len(mq) : mq[i].sig = sig

TxDoneEvt == [sig |-> "PHY_TX_DONE", t |-> 0]
RxdEvt(t) == [sig |-> "PHY_RXD_DATA", t |-> t]

RxTxSubStates == {"rx_prepping", "listening", "receiving", "tx_prepping", "transmitting"}

(* C1: in Transmitting, handling a TxDone interrupt event (PHY_DIO0)       *)
(* disarms the safety timeout, publishes exactly one PHY_TX_DONE and       *)
(* returns the machine to Idling.                                          *)
C1_TxDoneCompletes ==
    [][(me.state = "transmitting" /\ Handling("PHY_DIO0"))
         => (/\ tm_evt'.n = 0
             /\ pub' = Append(pub, TxDoneEvt)
             /\ me'.state = "idling")]_vars

(* A TxDone event is next to be dispatched in Transmitting.                *)
C1_TxDoneInTransmitting ==
    me.state = "transmitting" /\ mq # <<>> /\ Head(mq).sig = "PHY_DIO0"

(* C2: from Transmitting with nothing published yet, unless a TxDone       *)
(* interrupt or a standby-request intervenes, the safety timeout fires and *)
(* the machine is then in Idling with the chip in Standby and still no     *)
(* PHY_TX_DONE published.                                                  *)
C2_TimeoutForcesStandby ==
    (me.state = "transmitting" /\ pub = <<>>)
      ~> (\/ (/\ me.state = "idling"
              /\ OpModeOf(sx127x) = mode_lut("stdby")
              /\ pub = <<>>)
          \/ Queued("PHY_DIO0")
          \/ Queued("PHY_STDBY"))

(* Transmitting with no timeout armed or queued and no event to dispatch.  *)
C2_TransmittingUnarmed ==
    me.state = "transmitting" /\ pub = <<>> /\ tm_evt.n = 0 /\ mq = <<>>

(* C3: every entry into Transmitting is eventually followed by a return to *)
(* Idling, given that queued events are dispatched and an armed timer      *)
(* delivers its timeout event.                                             *)
C3_TransmittingReturnsToIdling ==
    (me.state = "transmitting") ~> (me.state = "idling")

(* The entry of Transmitting was begun and its exception escaped.          *)
C3_TransmittingEntered ==
    me.state = "transmitting" /\ lost /\ exc

(* C4: a ValidHeader event (PHY_DIO3) of time t_h handled in Listening     *)
(* records t_h and moves to Receiving without resetting it, and an RxDone  *)
(* event with clean receive flags handled in Receiving publishes the       *)
(* received packet with timestamp t_h.                                     *)
C4_HeaderTimeStamp ==
    [][/\ (me.state = "listening" /\ Handling("PHY_DIO3"))
            => (me'.state = "receiving" /\ me'.hdr_time = Head(mq).t)
       /\ (me.state = "receiving" /\ Handling("PHY_DIO0")
              /\ check_lora_rx_flags(sx127x).result)
            => pub' = Append(pub, RxdEvt(me.hdr_time))]_vars

(* A ValidHeader event of a time other than the reset value 0 is next to   *)
(* be dispatched in Listening.                                             *)
C4_HeaderInListening ==
    /\ me.state = "listening"
    /\ mq # <<>>
    /\ Head(mq).sig = "PHY_DIO3"
    /\ Head(mq).t > 0

(* C5: an RxDone event with clean receive flags handled in Listening,      *)
(* where no ValidHeader was captured, publishes the received packet with   *)
(* the RxDone event's own time as timestamp.                               *)
C5_RxDoneOwnTime ==
    [][(me.state = "listening" /\ Handling("PHY_DIO0")
           /\ check_lora_rx_flags(sx127x).result)
         => pub' = Append(pub, RxdEvt(Head(mq).t))]_vars

(* An RxDone event with clean flags is next to be dispatched in Listening. *)
C5_CleanRxDoneInListening ==
    /\ me.state = "listening"
    /\ me.hdr_time = 0
    /\ mq # <<>>
    /\ Head(mq).sig = "PHY_DIO0"
    /\ check_lora_rx_flags(sx127x).result

(* C6: an RxDone event handled in Listening or Receiving publishes exactly *)
(* one received packet if check_lora_rx_flags() is true and none if it is  *)
(* false, an RxTimeout event (PHY_DIO1) publishes none, and in all three   *)
(* cases the machine returns to Idling.                                    *)
C6_RxOutcome ==
    [][/\ (me.state \in {"listening", "receiving"} /\ Handling("PHY_DIO0"))
            => (/\ me'.state = "idling"
                /\ IF check_lora_rx_flags(sx127x).result
                   THEN /\ Len(pub') = Len(pub) + 1
                        /\ SubSeq(pub', 1, Len(pub)) = pub
                        /\ pub'[Len(pub')].sig = "PHY_RXD_DATA"
                   ELSE pub' = pub)
       /\ (me.state \in {"listening", "receiving"} /\ Handling("PHY_DIO1"))
            => (me'.state = "idling" /\ pub' = pub)]_vars

(* An RxTimeout event is next to be dispatched in Listening.               *)
C6_RxTimeoutInListening ==
    me.state = "listening" /\ mq # <<>> /\ Head(mq).sig = "PHY_DIO1"

(* C7: in every RX/TX sub-state (RxPrepping, Listening, Receiving,         *)
(* TxPrepping, Transmitting) handling a standby-request (PHY_STDBY) leaves *)
(* the chip in Standby and the machine in Idling.                          *)
C7_StandbyAborts ==
    [][(me.state \in RxTxSubStates /\ Handling("PHY_STDBY"))
         => (/\ me'.state = "idling"
             /\ OpModeOf(sx127x') = mode_lut("stdby"))]_vars

(* A standby-request is next to be dispatched in a prepping state.         *)
C7_StandbyInPrepping ==
    /\ me.state \in {"rx_prepping", "tx_prepping"}
    /\ ~lost
    /\ mq # <<>>
    /\ Head(mq).sig = "PHY_STDBY"

(* C8: a transmit-request handled in Listening forces the chip to Standby, *)
(* captures the request's time, frequency and payload and enters           *)
(* TxPrepping with the driver operations of the same request handled from  *)
(* Idling.                                                                 *)
C8_TransmitPreemptsListening ==
    [][(me.state = "listening" /\ Handling("PHY_TRANSMIT"))
         => LET c == [Ctx EXCEPT !.mq = Tail(mq),
                                 !.me.state = "idling",
                                 !.sx = set_op_mode_rmw(sx127x, "stdby").sx]
                fromIdling == _idling(c, Head(mq))
            IN  /\ me' = fromIdling.me
                /\ me'.state = "tx_prepping"
                /\ sx127x' = fromIdling.sx
                /\ mq' = fromIdling.mq]_vars

(* A transmit-request is next to be dispatched in Listening, no header     *)
(* having been seen.                                                       *)
C8_TransmitInListening ==
    /\ me.state = "listening"
    /\ me.hdr_time = 0
    /\ mq # <<>>
    /\ Head(mq).sig = "PHY_TRANSMIT"

C12_ListeningEntryMode ==
    [][(me.state # "listening" /\ me'.state = "listening")
         => OpModeOf(sx127x') = IF me'.rx_time < 0
                                THEN mode_lut("rxcont")
                                ELSE mode_lut("rxonce")]_vars

(* The entry of Listening was run for an open-ended receive request.       *)
C12_ListeningEntered ==
    me.state = "listening" /\ me.rx_time < 0 /\ me.hdr_time = 0

(* C17: a set-configuration request handled in Idling leaves the machine   *)
(* in Idling and the driver holding the configuration the request carries: *)
(* its bandwidth index and the modem registers written from it.            *)
C17_SetLoraAppliesConfig ==
    [][(me.state = "idling" /\ ~lost /\ Handling("PHY_SET_LORA"))
         => LET cfg == CfgOf(Head(mq).d)
            IN  /\ me'.state = "idling"
                /\ sx127x'.bandwidth_idx = cfg.bandwidth_idx
                /\ sx127x'.regs.sync_word = cfg.sync_word
                /\ sx127x'.regs.sym_to = cfg.symbol_count % 256]_vars

(* A set-configuration request is next to be dispatched in Idling.         *)
C17_SetLoraInIdling ==
    /\ me.state = "idling"
    /\ ~lost
    /\ mq # <<>>
    /\ Head(mq).sig = "PHY_SET_LORA"

(* C18: whatever commands, interrupt events and timeouts the machine is    *)
(* given, no state handler raises an exception and the machine is always   *)
(* in one of its declared states.                                          *)
C18_NoHandlerRaises == ~exc /\ ~lost

(* A receive or transmit request was accepted in Idling and the entry of   *)
(* the state it leads to was begun.                                        *)
C18_RequestAccepted ==
    me.state \in {"listening", "transmitting"}

(* C13: check_lora_rx_flags() returns true exactly when, in the flag byte  *)
(* it read, RxDone is set and neither RxTimeout nor PayloadCrcError is     *)
(* set, whatever the other five bits are, and the value it writes back is  *)
(* the byte it read restricted to the RxTimeout, RxDone, PayloadCrcError   *)
(* and ValidHeader bits.                                                   *)
C13_RxFlagsTruthTable ==
    drv.op = "check_lora_rx_flags"
      => LET fl == drv.pre.regs.irq_flags
         IN  /\ drv.ret.result = (Bit(fl, 6) = 1 /\ Bit(fl, 7) = 0 /\ Bit(fl, 5) = 0)
             /\ drv.ret.written = 128 * Bit(fl, 7) + 64 * Bit(fl, 6)
                                   + 32 * Bit(fl, 5) + 16 * Bit(fl, 4)

(* check_lora_rx_flags was called on a flag byte with RxDone,              *)
(* PayloadCrcError and TxDone set and returned false.                      *)
C13_RxDoneWithCrcError ==
    /\ drv.op = "check_lora_rx_flags"
    /\ drv.pre.regs.irq_flags = 64 + 32 + 8
    /\ ~drv.ret.result

(* C14: for every configuration and every operating mode of the chip       *)
(* before the call, set_config() completes, has written the modem          *)
(* registers, and leaves the operating-mode field as it was before.        *)
C14_ConfigRestoresMode ==
    drv.op = "set_config"
      => (/\ ~drv.raised
          /\ OpModeOf(sx127x) = OpModeOf(drv.pre)
          /\ sx127x.regs.sync_word = drv.arg.sync_word
          /\ sx127x.regs.sym_to = drv.arg.symbol_count % 256)

(* set_config was called on a chip in RxContinuous.                        *)
C14_ConfigWhileReceiving ==
    drv.op = "set_config" /\ OpModeOf(drv.pre) = mode_lut("rxcont")

(* C15: after set_op_mode(mode), for every valid mode name, the low three  *)
(* bits of the operating-mode register are the mode's code and its upper   *)
(* five bits are what they were before the call.                           *)
C15_OpModeReadModifyWrite ==
    drv.op = "set_op_mode"
      => (/\ ~drv.raised
          /\ sx127x.regs.op_mode % 8 = mode_lut(drv.arg)
          /\ sx127x.regs.op_mode \div 8 = drv.pre.regs.op_mode \div 8)

(* set_op_mode("tx") was called on a chip in Standby.                      *)
C15_TxModeRequested ==
    /\ drv.op = "set_op_mode"
    /\ drv.arg = "tx"
    /\ OpModeOf(drv.pre) = mode_lut("stdby")

DioView(sx) == <<sx.dio_mapping, sx.regs.dio_map1, sx.regs.dio_map2>>

(* C16: a set_dio_mapping call gives the pins it names their new values    *)
(* and leaves the other pins of the cached mapping as they were; repeating *)
(* the same call changes neither the cached mapping nor the register pair; *)
(* and two calls that name different pins leave the same cached mapping    *)
(* and register pair as the same two calls made in the other order.        *)
C16_DioMappingUpdates ==
    drv.op = "set_dio_mapping"
      => (/\ \A k \in 0..5 :
                sx127x.dio_mapping[k] = IF k \in DOMAIN drv.arg
                                        THEN drv.arg[k]
                                        ELSE drv.pre.dio_mapping[k]
          /\ drv.prev.op = "set_dio_mapping"
                => (/\ (DOMAIN drv.arg = DOMAIN drv.prev.arg
                          /\ \A k \in DOMAIN drv.arg : drv.arg[k] = drv.prev.arg[k])
                         => DioView(sx127x) = DioView(drv.pre)
                    /\ (DOMAIN drv.arg \cap DOMAIN drv.prev.arg = {})
                         => DioView(sx127x)
                              = DioView(set_dio_mapping(
                                    set_dio_mapping(drv.prev.pre, drv.arg),
                                    drv.prev.arg))))

(* From a mapping with pins 2 and 4 at 3, pin 1 was set to 2 and then pin  *)
(* 4 to 1.                                                                 *)
C16_TwoPinsUpdated ==
    /\ drv.op = "set_dio_mapping"
    /\ drv.prev.op = "set_dio_mapping"
    /\ DOMAIN drv.prev.arg = {1}
    /\ DOMAIN drv.arg = {4}
    /\ drv.prev.pre.dio_mapping[2] = 3
    /\ drv.prev.pre.dio_mapping[4] = 3
    /\ sx127x.dio_mapping[1] = 2
    /\ sx127x.dio_mapping[4] = 1

SignedByte(b) == IF b >= 128 THEN b - 256 ELSE b

(* C19: get_lora_rxd() reports as SNR the packet-SNR byte read as a signed *)
(* 8-bit value, divided by 4, and as RSSI -157 plus the packet-RSSI byte.  *)
C19_SnrSignedQuarterDb ==
    drv.op = "get_lora_rxd"
      => (/\ drv.ret.snr.num * 4 = SignedByte(drv.pre.regs.pkt_snr) * drv.ret.snr.den
          /\ drv.ret.rssi = -157 + drv.pre.regs.pkt_rssi)

(* get_lora_rxd was called with the packet-SNR register holding 0xD8       *)
(* (-40 as a signed byte: -10 dB).                                         *)
C19_NegativeSnrRead ==
    drv.op = "get_lora_rxd" /\ drv.pre.regs.pkt_snr = 216

(* C20: set_modem completes, leaves the modem bits of the operating-mode   *)
(* register selecting the requested modem, and leaves the operating-mode   *)
(* field as it was before the call, for every mode the chip was in.        *)
C20_ModemRestoresMode ==
    drv.op = "set_modem"
      => (/\ ~drv.raised
          /\ OpModeOf(sx127x) = OpModeOf(drv.pre)
          /\ Bit(sx127x.regs.op_mode, 7) = (IF drv.arg = "lora" THEN 1 ELSE 0)
          /\ Bit(sx127x.regs.op_mode, 5) = (IF drv.arg = "ook" THEN 1 ELSE 0))

(* set_modem("lora") was called on a chip in RxContinuous.                 *)
C20_ModemWhileReceiving ==
    /\ drv.op = "set_modem"
    /\ drv.arg = "lora"
    /\ OpModeOf(drv.pre) = mode_lut("rxcont")

PreppingStates == {"rx_prepping", "tx_prepping"}

(* C25: the step that enters RxPrepping or TxPrepping leaves the           *)
(* continuation event _ALWAYS at the front of the machine's queue, so that *)
(* it is the next event dispatched.                                        *)
C25_ContinuationAtFront ==
    [][(Dispatch /\ ~lost' /\ me'.state \in PreppingStates
           /\ Head(mq).sig \in {"PHY_RECEIVE", "PHY_TRANSMIT"})
         => (mq' # <<>> /\ Head(mq').sig = "_ALWAYS")]_vars

(* A receive-request is next to be dispatched in Idling with a             *)
(* standby-request queued behind it.                                       *)
C25_RequestWithQueuedCommand ==
    /\ me.state = "idling"
    /\ ~lost
    /\ Len(mq) = 2
    /\ mq[1].sig = "PHY_RECEIVE"
    /\ mq[2].sig = "PHY_STDBY"

(* C26: a step that enters Listening leaves the cached DIO mapping and the *)
(* mapping registers with DIO0 = 0 (RxDone), DIO1 = 0 (RxTimeout) and      *)
(* DIO3 = 1 (ValidHeader), and a step that enters Transmitting leaves them *)
(* with DIO0 = 1 (TxDone), whatever receive and transmit requests came     *)
(* before.                                                                 *)
C26_DioMappingAtEntry ==
    [][/\ (me.state # "listening" /\ me'.state = "listening")
            => (/\ sx127x'.dio_mapping[0] = 0
                /\ sx127x'.dio_mapping[1] = 0
                /\ sx127x'.dio_mapping[3] = 1
                /\ sx127x'.regs.dio_map1 \div 64 = 0
                /\ (sx127x'.regs.dio_map1 \div 16) % 4 = 0
                /\ sx127x'.regs.dio_map1 % 4 = 1)
       /\ (me.state # "transmitting" /\ me'.state = "transmitting")
            => (/\ sx127x'.dio_mapping[0] = 1
                /\ sx127x'.regs.dio_map1 \div 64 = 1)]_vars

(* Listening was entered after a transmit request had been prepared: DIO0  *)
(* had been mapped to TxDone before the receive request remapped it.       *)
C26_ListeningAfterTxPrepping ==
    /\ me.state = "listening"
    /\ me.tx_data # <<>>
    /\ sx127x.regs.irq_mask = BitNot(RxFlagsMask)

(* C24: the time event is armed only when no earlier arming is still       *)
(* pending (it has fired or was disarmed), so at most one timeout is       *)
(* pending at any time.                                                    *)
C24_NoArmingWhilePending ==
    [][/\ tm_evt'.n <= 1
       /\ tm_evt'.n > tm_evt.n => tm_evt.n = 0]_vars

(* The retry timeout armed by a failed check in Initializing is pending    *)
(* while a command waits in the queue.                                     *)
C24_RetryArmed ==
    /\ me.state = "initializing"
    /\ tm_evt.n = 1
    /\ tm_evt.delay = TMOUT_RETRY
    /\ mq # <<>>
    /\ Head(mq).sig = "PHY_TRANSMIT"

C23_PassedStartNoWait ==
    [][/\ (me.state = "rx_prepping" /\ ~lost /\ Handling("_ALWAYS")
              /\ me.rx_time <= now)
            => (now' = now /\ me'.state = "listening")
       /\ (me.state = "tx_prepping" /\ ~lost /\ Handling("_ALWAYS")
              /\ me.tx_time <= now)
            => (now' = now /\ me'.state = "transmitting")]_vars

(* The continuation is next to be dispatched in TxPrepping for a transmit  *)
(* request whose start time is the current time.                           *)
C23_StartTimeJustPassed ==
    /\ me.state = "tx_prepping"
    /\ ~lost
    /\ mq # <<>>
    /\ Head(mq).sig = "_ALWAYS"
    /\ me.tx_time = now

IrqDioOps == {"disable_lora_irqs", "enable_lora_irqs", "clear_lora_irqs", "set_dio_mapping"}
FifoFreqOps ==
    {"set_lora_rx_fifo", "set_lora_rx_freq", "set_lora_fifo_ptr", "set_tx_data", "set_tx_freq"}

(* The call sets the operating mode to one that starts reception or        *)
(* transmission.                                                           *)
Arming(call, modes) == call.op = "set_op_mode" /\ call.arg \in modes

ArmedBy(cs, modes) == \E i \in 1..Len(cs) : Arming(cs[i], modes)

(* C21: among the driver calls of one step, the interrupt-mask writes, the *)
(* interrupt-flag clears and the DIO-mapping write come before the FIFO    *)
(* and carrier-frequency writes, and none of them comes after a call that  *)
(* sets the mode to rxcont, rxonce or tx; and when a step makes such a     *)
(* call, the interrupt mask, the DIO mapping, the FIFO and the frequency   *)
(* already hold what the prepping state of that direction programs for the *)
(* request at hand, also when another request was being prepared before.   *)
C21_PreparedBeforeArming ==
    [][LET cs == sx127x'.calls
       IN  /\ \A i, j \in 1..Len(cs) :
                 i < j => /\ ~(cs[i].op \in FifoFreqOps /\ cs[j].op \in IrqDioOps)
                          /\ ~(Arming(cs[i], {"rxcont", "rxonce", "rx", "tx"})
                                 /\ cs[j].op \in FifoFreqOps \cup IrqDioOps)
           /\ (Dispatch /\ ArmedBy(cs, {"tx"}))
                => (/\ sx127x.regs.irq_mask = BitNot(IRQFLAGS_TXDONE_MASK)
                    /\ sx127x.dio_mapping[0] = 1
                    /\ sx127x.regs.fifo = me.tx_data
                    /\ sx127x.regs.payld_len = Len(me.tx_data)
                    /\ sx127x.regs.freq = me.tx_freq)
           /\ (Dispatch /\ ArmedBy(cs, {"rxcont", "rxonce", "rx"}))
                => (/\ sx127x.regs.irq_mask = BitNot(RxFlagsMask)
                    /\ sx127x.dio_mapping[0] = 0
                    /\ sx127x.dio_mapping[1] = 0
                    /\ sx127x.dio_mapping[3] = 1
                    /\ sx127x.regs.fifo_rx_base = rx_base_ptr
                    /\ sx127x.regs.freq = me.rx_freq)]_vars

(* The entry of Transmitting has called set_op_mode("tx") after a receive  *)
(* request and then a transmit request were prepared: the continuation of  *)
(* the second preparation is still in the queue.                           *)
C21_ArmedAfterRepreparation ==
    /\ me.state = "transmitting"
    /\ ArmedBy(sx127x.calls, {"tx"})
    /\ me.rx_freq # 0
    /\ mq # <<>>
    /\ Head(mq).sig = "_ALWAYS"

DioSignals == {"PHY_DIO0", "PHY_DIO1", "PHY_DIO3"}

(* C29: a DIO event that was queued before a prepping state was entered is *)
(* dispatched, and discarded, before the machine leaves that prepping      *)
(* state: once Listening or Transmitting is entered, no DIO event is left  *)
(* in the queue ahead of a continuation event _ALWAYS, which a prepping    *)
(* entry posted after the DIO event had been queued.                       *)
C29_EarlierDioDiscarded ==
    me.state \in {"listening", "transmitting"}
      => \A i, j \in 1..Len(mq) :
             i < j => ~(mq[i].sig \in DioSignals /\ mq[j].sig = "_ALWAYS")

(* In TxPrepping, entered from RxPrepping by a transmit request: the       *)
(* continuation of RxPrepping is next to be dispatched, then a DIO0 event  *)
(* queued before TxPrepping was entered, then TxPrepping's continuation.   *)
C29_DioBetweenContinuations ==
    /\ me.state = "tx_prepping"
    /\ ~lost
    /\ Len(mq) = 3
    /\ mq[1].sig = "_ALWAYS"
    /\ mq[2].sig = "PHY_DIO0"
    /\ mq[3].sig = "_ALWAYS"

RxParams(m) == <<m.rx_time, m.rx_freq>>
TxParams(m) == <<m.tx_time, m.tx_freq, m.tx_data>>
Prepared(cs, op) == \E i \in 1..Len(cs) : cs[i].op = op

(* C31: the stored receive parameters change only when a receive request   *)
(* is accepted (its dispatch enters RxPrepping), and then to that          *)
(* request's start time and frequency, which the entry programs; likewise  *)
(* the stored transmit parameters and TxPrepping.  No other step changes   *)
(* them.  On every entry to Listening the frequency programmed in the chip *)
(* is the stored receive frequency and the mode asked for is chosen from   *)
(* the stored start time; on every entry to Transmitting the payload, the  *)
(* payload length and the frequency in the chip are the stored ones.       *)
C31_EntryUsesLatestRequest ==
    [][/\ me' # me => Dispatch
       /\ Dispatch =>
            LET e == Head(mq)
                rxAccepted == /\ e.sig = "PHY_RECEIVE"
                              /\ me'.state = "rx_prepping"
                              /\ Prepared(sx127x'.calls, "set_lora_rx_freq")
                txAccepted == /\ e.sig = "PHY_TRANSMIT"
                              /\ me'.state = "tx_prepping"
                              /\ Prepared(sx127x'.calls, "set_tx_freq")
            IN  /\ RxParams(me') # RxParams(me) => rxAccepted
                /\ TxParams(me') # TxParams(me) => txAccepted
                /\ rxAccepted => /\ RxParams(me') = <<e.t, e.f>>
                                 /\ sx127x'.regs.freq = e.f
                /\ txAccepted => /\ TxParams(me') = <<e.t, e.f, e.d>>
                                 /\ sx127x'.regs.freq = e.f
                                 /\ sx127x'.regs.fifo = e.d
                                 /\ sx127x'.regs.payld_len = Len(e.d)
                /\ (me.state # "listening" /\ me'.state = "listening") =>
                      /\ sx127x'.regs.freq = me'.rx_freq
                      /\ ArmedBy(sx127x'.calls,
                                 {IF me'.rx_time < 0 THEN "rxcont" ELSE "rxonce"})
                /\ (me.state # "transmitting" /\ me'.state = "transmitting") =>
                      /\ sx127x'.regs.freq = me'.tx_freq
                      /\ sx127x'.regs.fifo = me'.tx_data
                      /\ sx127x'.regs.payld_len = Len(me'.tx_data)
      ]_vars

(* Listening was entered by the continuation of an earlier RxPrepping      *)
(* entry after a second receive request, with another frequency and a      *)
(* start time that picks the other mode, had been accepted in RxPrepping:  *)
(* the second entry's continuation is still queued.                        *)
C31_ListeningAfterSecondRequest ==
    /\ me.state = "listening"
    /\ ncmd = 2
    /\ mq = <<AlwaysEvt>>
    /\ me.rx_time = 0
    /\ me.rx_freq = 2
    /\ sx127x.regs.freq = 2
    /\ ArmedBy(sx127x.calls, {"rxonce"})

====
